---- MODULE Spec2Model ----
(***************************************************************************)
(* librd rdstring.c: the thread-local cyclic buffer pool behind            *)
(* rd_tsprintf() and its teardown rd_string_thread_cleanup().              *)
(*                                                                         *)
(* A formatted text is modelled as a run of one character: [ch, n] is the  *)
(* character ch repeated n times.  A heap block is an address with a live  *)
(* flag, an allocated size and the text it currently holds.                *)
(***************************************************************************)
EXTENDS Integers, FiniteSets, Sequences, TLC

(* ------------------------------ bounds -------------------------------- *)

\* RD_TSPRINTF_BUFCNT (rdstring.h, not part of src/): number of slots, >= 1.
BUFCNT == 2

\* Number of threads of the process.
NThreads == 2

\* Calls made in all by the interleaved threads of SpecMT.
MaxSteps == 4

\* Heap addresses beyond the NThreads * BUFCNT the pools can hold at once.
ExtraAddrs == 1

\* Bytes of the memory rd_snprintf_cat() is given.
MaxBuf == 4

\* Longest string compared by rd_strndiffpos() and rd_strdiffpos().
MaxStrLen == 3

(* ----------------------------- constants ------------------------------ *)

\* The absolute floor of the shrink test.
ShrinkFloor == 64

\* The relative factor of the shrink test.
ShrinkFactor == 4

\* The null pointer.
NULL == 0

Threads == 1 .. NThreads

Addrs == 1 .. (NThreads * BUFCNT + ExtraAddrs)

Min(a, b) == IF a < b THEN a ELSE b

(* ------------------------------- int ---------------------------------- *)

\* The largest and the smallest value of the 32 bit type int.
INT_MAX == 2147483647

INT_MIN == -INT_MAX - 1

\* a + b does not fit an int.
int_add_overflows(a, b) ==
  \/ b > 0 /\ a > INT_MAX - b
  \/ b < 0 /\ a < INT_MIN - b

\* a + b on ints, modulo 2^32 where it does not fit.
int_add(a, b) ==
  IF b > 0 /\ a > INT_MAX - b THEN (a - INT_MAX) + (b - INT_MAX) - 2
  ELSE IF b < 0 /\ a < INT_MIN - b THEN (a + INT_MAX) + (b + INT_MAX) + 2
  ELSE a + b

\* a * k, k a positive literal, does not fit an int.
int_mul_overflows(a, k) ==
  \/ a > INT_MAX \div k
  \/ a < (INT_MIN + k - 1) \div k

\* a * k on ints, k a positive literal, modulo 2^32 where it does not fit.
RECURSIVE int_mul(_, _)
int_mul(a, k) == IF k = 0 THEN 0 ELSE int_add(int_mul(a, k - 1), a)

(* ------------------------------ formats ------------------------------- *)

\* Rendered lengths exercised: empty, small, large.  A slot grows from one
\* to the next, shrinks from 501 bytes, keeps 11 bytes for the empty text
\* (oversized but under the floor) and keeps 501 bytes for the large one
\* (over the floor but not oversized).
Lens == {0, 10, 500}

\* The texts a format may render to.
Texts == {[ch |-> "a", n |-> l] : l \in Lens}

\* A format vsnprintf() rejects (invalid conversion, encoding error).
BadFormat == [ch |-> "!", n |-> 0]

Formats == Texts \cup {BadFormat}

\* The content of memory nothing has been rendered into.
Garbage == [ch |-> "?", n |-> 0]

\* vsnprintf(NULL, 0, format, ap): the full length of the output, or a
\* negative value on error.
vsnprintf_len(fmt) == IF fmt = BadFormat THEN -1 ELSE fmt.n

\* vsnprintf(dst, size, format, ap): what ends up in dst, at most size-1
\* characters followed by the terminator.
vsnprintf_out(fmt, size) == [ch |-> fmt.ch, n |-> Min(fmt.n, size - 1)]

(* ------------------------------- heap --------------------------------- *)

DeadBlock == [live |-> FALSE, size |-> 0, text |-> Garbage]

\* malloc(size) returning address a: the block is live, content unset.
malloc(h, a, size) ==
  [h EXCEPT ![a] = [live |-> TRUE, size |-> size, text |-> Garbage]]

\* The addresses malloc() may return with heap h, right after the calls
\* free() listed in freed.  Any block that is not live may be handed out.
\* The pointers a caller can still hold to such a block are those just
\* freed; the remaining free addresses are interchangeable, and the lowest
\* stands for them.
malloc_results(h, freed) ==
  LET free_ == {a \in DOMAIN h : ~h[a].live}
      stale == {freed[k] : k \in DOMAIN freed} \cap free_
      fresh == free_ \ stale
  IN  stale \cup {a \in fresh : \A b \in fresh : a <= b}

\* free(a) on world w = [heap, fault, freed]: releasing a block that is not
\* live is a double free.
free(w, a) ==
  IF w.heap[a].live
    THEN [w EXCEPT !.heap[a] = DeadBlock, !.freed = Append(@, a)]
    ELSE [w EXCEPT !.fault = TRUE, !.freed = Append(@, a)]

(* ------------------------------- pool --------------------------------- *)

\* struct rdstr_cyclic.  buf and len are the contents of the two arrays
\* (empty while there is no array); bufp and lenp tell what the two array
\* pointers refer to: "null", "live" or "freed".
ZeroCyclic ==
  [size |-> 0, buf |-> <<>>, len |-> <<>>, i |-> 0,
   bufp |-> "null", lenp |-> "null"]

\* One instance for the whole process, as without __thread.
rdstr_states_shared(t) == 1

\* The thread-local instance a thread's accesses resolve to.
rdstr_states(t) == t

\* calloc(n, size): n zeroed entries, indexed from 0.
calloc(n, zero) == [s \in 0 .. n - 1 |-> zero]

\* rdstr_cyclic_get() that never steps to the next index.
rdstr_cyclic_get_stuck(cyc, size, arrOk) ==
  IF cyc.size = 0
    THEN [cyc EXCEPT !.size = size,
                     !.buf = calloc(size, NULL), !.len = calloc(size, 0),
                     !.bufp = "live", !.lenp = "live"]
    ELSE cyc

\* rdstr_cyclic_get() that records one slot more than it allocates.
rdstr_cyclic_get_oversize(cyc, size, arrOk) ==
  IF cyc.size = 0
    THEN [cyc EXCEPT !.size = size + 1,
                     !.buf = calloc(size, NULL), !.len = calloc(size, 0),
                     !.bufp = "live", !.lenp = "live"]
    ELSE [cyc EXCEPT !.i = (cyc.i + 1) % cyc.size]

\* rdstr_cyclic_get(): initialize the pool or step to the next index.
rdstr_cyclic_get(cyc, size, arrOk) ==
  IF cyc.size = 0
    THEN [cyc EXCEPT !.size = size,
                     !.buf = IF arrOk THEN calloc(size, NULL) ELSE <<>>,
                     !.len = IF arrOk THEN calloc(size, 0) ELSE <<>>,
                     !.bufp = IF arrOk THEN "live" ELSE "null",
                     !.lenp = IF arrOk THEN "live" ELSE "null"]
    ELSE [cyc EXCEPT !.i = (cyc.i + 1) % cyc.size]

\* The error test missing the value -1.
measure_failed_late(len) == len < -1

\* The error test on the measured length.
measure_failed(len) == len < 0

\* The replace test without its grow clause.
NeedReplace_nogrow(b, cap, len) ==
  \/ b = NULL
  \/ (cap > len * ShrinkFactor /\ cap > ShrinkFloor)

\* The replace test without the floor of its shrink clause.
NeedReplace_nofloor(b, cap, len) ==
  \/ b = NULL
  \/ cap < len
  \/ cap > len * ShrinkFactor

\* The replace test that replaces on every call.
NeedReplace_always(b, cap, len) == TRUE

\* The replace test without its shrink clause.
NeedReplace_noshrink(b, cap, len) ==
  \/ b = NULL
  \/ cap < len

\* The replace test of rd_tsprintf(), len including the terminator.
NeedReplace(b, cap, len) ==
  \/ b = NULL
  \/ cap < len
  \/ (cap > int_mul(len, ShrinkFactor) /\ cap > ShrinkFloor)

\* The sizing of rd_tsprintf() for a measured length len leaves the range
\* of int: in len++, or in len * 4 where the test gets to evaluate it.
sizing_overflows(b, cap, len) ==
  \/ int_add_overflows(len, 1)
  \/ /\ b # NULL
     /\ ~(cap < int_add(len, 1))
     /\ int_mul_overflows(int_add(len, 1), ShrinkFactor)

\* rd_tsprintf(), the render step: vsnprintf() into the slot at the cursor
\* of pool c, bounded by its recorded capacity, and the return of its
\* storage.  w = [heap, fault, freed] is the heap so far, rep whether the
\* storage was replaced, allocs the addresses malloc could return.
tsprintf_render(c, w, fmt, len, rep, allocs) ==
  LET dst == c.buf[c.i]
      out == vsnprintf_out(fmt, c.len[c.i])
  IN  [cyc |-> c,
       heap |-> IF dst # NULL THEN [w.heap EXCEPT ![dst].text = out]
                              ELSE w.heap,
       ret |-> dst,
       fault |-> \/ w.fault
                 \/ dst = NULL
                 \/ (dst # NULL /\ out.n + 1 > w.heap[dst].size),
       nfreed |-> Len(w.freed), replaced |-> rep, allocs |-> allocs]

\* The replace step recording the new capacity for every slot.
tsprintf_alloc_wide(c, w, fmt, len, a) ==
  tsprintf_render([c EXCEPT !.len = [s \in DOMAIN c.len |-> len],
                            !.buf[c.i] = a],
                  IF a # NULL
                    THEN [w EXCEPT !.heap = malloc(w.heap, a, len)]
                    ELSE w,
                  fmt, len, TRUE, malloc_results(w.heap, w.freed))

\* The replace step not recording the new capacity.
tsprintf_alloc_norecord(c, w, fmt, len, a) ==
  tsprintf_render([c EXCEPT !.buf[c.i] = a],
                  IF a # NULL
                    THEN [w EXCEPT !.heap = malloc(w.heap, a, len)]
                    ELSE w,
                  fmt, len, TRUE, malloc_results(w.heap, w.freed))

\* The replace step returning an error when malloc() fails.
tsprintf_alloc_checked(c, w, fmt, len, a) ==
  IF a = NULL
    THEN [cyc |-> c, heap |-> w.heap, ret |-> NULL, fault |-> w.fault,
          nfreed |-> Len(w.freed), replaced |-> TRUE,
          allocs |-> malloc_results(w.heap, w.freed)]
    ELSE tsprintf_render([c EXCEPT !.len[c.i] = len, !.buf[c.i] = a],
                         [w EXCEPT !.heap = malloc(w.heap, a, len)],
                         fmt, len, TRUE, malloc_results(w.heap, w.freed))

\* rd_tsprintf(), the replace step on pool c with the old storage, if any,
\* already released in w: record len and the block malloc returned, a
\* (NULL when it fails).
tsprintf_alloc(c, w, fmt, len, a) ==
  tsprintf_render([c EXCEPT !.len[c.i] = len, !.buf[c.i] = a],
                  IF a # NULL
                    THEN [w EXCEPT !.heap = malloc(w.heap, a, len)]
                    ELSE w,
                  fmt, len, TRUE, malloc_results(w.heap, w.freed))

\* The replace step not releasing the old storage.
tsprintf_sized_leak(c, h, fmt, len, a) ==
  LET cur == c.buf[c.i]
      w == [heap |-> h, fault |-> FALSE, freed |-> <<>>]
  IN  IF NeedReplace(cur, c.len[c.i], len)
        THEN tsprintf_alloc(c, w, fmt, len, a)
        ELSE tsprintf_render(c, w, fmt, len, FALSE, {})

\* rd_tsprintf() from the replace test on, len including the terminator.
tsprintf_sized(c, h, fmt, len, a) ==
  LET cur == c.buf[c.i]
      w == [heap |-> h, fault |-> FALSE, freed |-> <<>>]
  IN  IF NeedReplace(cur, c.len[c.i], len)
        THEN tsprintf_alloc(c, IF cur # NULL THEN free(w, cur) ELSE w,
                            fmt, len, a)
        ELSE tsprintf_render(c, w, fmt, len, FALSE, {})

\* rd_tsprintf() after rdstr_cyclic_get() returned pool c and the dry run
\* returned len.
tsprintf_measured(c, h, fmt, len, a) ==
  LET stop == [cyc |-> c, heap |-> h, ret |-> NULL, fault |-> FALSE,
               nfreed |-> 0, replaced |-> FALSE, allocs |-> {}]
  IN  IF measure_failed(len) THEN stop
      ELSE IF c.bufp # "live" \/ c.lenp # "live"
        THEN [stop EXCEPT !.fault = TRUE]
      ELSE tsprintf_sized(c, h, fmt, int_add(len, 1), a)

\* rd_tsprintf() as a function of the pool cyc, the heap h, the format, and
\* the allocator's answers: arrOk (the two calloc succeed) and a (the
\* address malloc returns, NULL on failure).  The result gives the new pool
\* and heap, the returned pointer, what the call did, and allocs: the
\* addresses malloc could return in this call (none if it is not called).
rd_tsprintf(cyc, h, fmt, arrOk, a) ==
  tsprintf_measured(rdstr_cyclic_get(cyc, BUFCNT, arrOk), h, fmt,
                    vsnprintf_len(fmt), a)

\* The loop stopping one slot early.
RECURSIVE cleanup_loop_short(_, _, _)
cleanup_loop_short(cyc, w, i) ==
  IF i >= cyc.size - 1 THEN w
  ELSE cleanup_loop_short(cyc,
                          IF cyc.buf[i] # NULL THEN free(w, cyc.buf[i])
                                               ELSE w,
                          i + 1)

\* The loop of rd_string_thread_cleanup() from index i on.
RECURSIVE cleanup_loop(_, _, _)
cleanup_loop(cyc, w, i) ==
  IF i >= cyc.size THEN w
  ELSE cleanup_loop(cyc,
                    IF cyc.buf[i] # NULL THEN free(w, cyc.buf[i]) ELSE w,
                    i + 1)

\* free() of one of the two arrays.
free_array(p) == IF p = "live" THEN "freed" ELSE p

\* The end of rd_string_thread_cleanup(), after the loop left heap w: the
\* two arrays are released and the size is reset.
cleanup_done(cyc, w) ==
  [cyc |-> [cyc EXCEPT !.size = 0, !.buf = <<>>, !.len = <<>>,
                       !.bufp = free_array(cyc.bufp),
                       !.lenp = free_array(cyc.lenp)],
   heap |-> w.heap, fault |-> w.fault, nfreed |-> Len(w.freed),
   arrays |-> 2]

\* rd_string_thread_cleanup() as a function of the pool and the heap.
rd_string_thread_cleanup(cyc, h) ==
  LET w0 == [heap |-> h, fault |-> FALSE, freed |-> <<>>]
      stop == [cyc |-> cyc, heap |-> h, fault |-> FALSE, nfreed |-> 0,
               arrays |-> 0]
  IN  IF cyc.size # 0
        THEN IF cyc.bufp # "live"
          THEN [stop EXCEPT !.fault = TRUE]
          ELSE cleanup_done(cyc, cleanup_loop(cyc, w0, 0))
        ELSE stop

(* ---------------------------- rd_snprintf_cat ------------------------- *)

\* The memory str points into is a sequence of bytes: characters and the
\* terminator.
Nul == "nul"

\* strlen(): the number of bytes before the first terminator.
strlen(mem) ==
  CHOOSE k \in 0 .. Len(mem) - 1 :
    mem[k + 1] = Nul /\ \A j \in 1 .. k : mem[j] # Nul

\* vsnprintf(mem + at, size, ...) producing text: at most size - 1 bytes of
\* it and a terminator are stored from offset at on; nothing for size 0.
vsnprintf_into(mem, at, size, text) ==
  IF size = 0 THEN mem
  ELSE [j \in DOMAIN mem |->
          IF j > at /\ j <= at + Min(text.n, size - 1) THEN text.ch
          ELSE IF j = at + Min(text.n, size - 1) + 1 THEN Nul
          ELSE mem[j]]

\* The test with the bound one too high.
cat_full_late(of, size) == of > size

\* The test for no room left: of, a length, compared with the size_t size.
cat_full(of, size) == of >= size

\* rd_snprintf_cat(str, size, format, ...) with mem the memory at str.  A
\* format vsnprintf() rejects returns -1 after storing some part, of length
\* part, of its output.
rd_snprintf_cat(mem, size, fmt, part) ==
  LET of == strlen(mem)
      n == vsnprintf_len(fmt)
      text == IF n < 0 THEN [ch |-> fmt.ch, n |-> part] ELSE fmt
  IN  IF cat_full(of, size)
        THEN [mem |-> mem, ret |-> -1, errno |-> "ERANGE"]
        ELSE [mem |-> vsnprintf_into(mem, of, size - of, text),
              ret |-> int_add(of, n), errno |-> "unset"]

(* ------------------------------ diffpos ------------------------------- *)

\* The loop of rd_strndiffpos() from index i on: the first index below
\* minlen where the two differ, or minlen.
RECURSIVE strndiffpos_loop(_, _, _, _)
strndiffpos_loop(s1, s2, i, minlen) ==
  IF i < minlen
    THEN IF s1[i + 1] # s2[i + 1] THEN i
         ELSE strndiffpos_loop(s1, s2, i + 1, minlen)
    ELSE minlen

\* rd_strndiffpos() without the comparison of the sizes.
rd_strndiffpos_nosize(s1, size1, s2, size2) ==
  LET minlen == Min(size1, size2)
      i == strndiffpos_loop(s1, s2, 0, minlen)
  IN  IF i < minlen THEN i ELSE -1

\* rd_strndiffpos(s1, size1, s2, size2).
rd_strndiffpos(s1, size1, s2, size2) ==
  LET minlen == Min(size1, size2)
      i == strndiffpos_loop(s1, s2, 0, minlen)
  IN  IF i < minlen THEN i
      ELSE IF size1 # size2 THEN minlen
      ELSE -1

\* rd_strdiffpos(s1, s2) on terminated strings, from offset k on.
RECURSIVE strdiffpos_loop(_, _, _)
strdiffpos_loop(z1, z2, k) ==
  IF z1[k + 1] = z2[k + 1]
    THEN IF z1[k + 1] = Nul THEN -1
         ELSE strdiffpos_loop(z1, z2, k + 1)
    ELSE k

\* rd_strdiffpos(s1, s2).
rd_strdiffpos(z1, z2) == strdiffpos_loop(z1, z2, 0)

(* ------------------------------ state --------------------------------- *)

VARIABLES
  pools,    \* the thread-local struct rdstr_cyclic instances
  heap,     \* the process heap: address -> block
  fault,    \* an invalid memory access or a double free has happened
  recent,   \* history: per thread, what its latest calls returned, newest
            \* first, at most BUFCNT of them, since the pool was initialized
  solo,     \* history: per thread, the pool and heap the thread has when
            \* it makes its calls alone, and what its latest call returned
  last,     \* history: the latest call and what it did
  steps,    \* the number of calls made, where a specification bounds it
  call      \* a call of one of the stateless functions: its arguments,
            \* and its results once it has returned

vars == <<pools, heap, fault, recent, solo, last, steps, call>>

NoView == [addr |-> NULL, text |-> Garbage]

NoCall ==
  [op |-> "none", t |-> 0, fmt |-> BadFormat, ret |-> NULL, slot |-> 0,
   replaced |-> FALSE, initd |-> FALSE, nfreed |-> 0, arrays |-> 0,
   preSize |-> 0, preI |-> 0, preLen |-> 0, hadView |-> FALSE]

\* What a reader of pointer p sees.
Read(h, p) == IF p # NULL /\ h[p].live THEN h[p].text ELSE Garbage

\* A pool without its addresses: per slot, whether storage is present, the
\* recorded capacity and the text held.
Abs(cyc, h) ==
  [size |-> cyc.size, i |-> cyc.i,
   slots |-> [s \in DOMAIN cyc.buf |->
                [present |-> cyc.buf[s] # NULL, cap |-> cyc.len[s],
                 text |-> Read(h, cyc.buf[s])]]]

\* The heap with no block allocated.
EmptyHeap == [a \in Addrs |-> DeadBlock]

NoOut == [ok |-> FALSE, text |-> Garbage]

\* The heap of a thread run alone: one address per slot.
SoloHeap == [a \in 1 .. BUFCNT |-> DeadBlock]

\* The thread run alone: the same calls on a pool and a heap of its own,
\* w = [cyc, heap, out], where the block of slot s is at address s + 1 and
\* out is what the latest call returned.
SoloTsprintf(w, fmt) ==
  LET r == rd_tsprintf(w.cyc, w.heap, fmt, TRUE,
                       rdstr_cyclic_get(w.cyc, BUFCNT, TRUE).i + 1)
  IN  [cyc |-> r.cyc, heap |-> r.heap,
       out |-> [ok |-> r.ret # NULL, text |-> Read(r.heap, r.ret)]]

SoloCleanup(w) ==
  LET r == rd_string_thread_cleanup(w.cyc, w.heap)
  IN  [cyc |-> r.cyc, heap |-> r.heap, out |-> NoOut]

\* No stateless function is being called.
NoArgs == [op |-> "none"]

\* The process at its start: every thread-local pool zero-initialized.
Started ==
  /\ pools = [p \in Threads |-> ZeroCyclic]
  /\ heap = EmptyHeap
  /\ fault = FALSE
  /\ recent = [t \in Threads |-> <<>>]
  /\ solo = [t \in Threads |->
               [cyc |-> ZeroCyclic, heap |-> SoloHeap, out |-> NoOut]]
  /\ last = NoCall
  /\ steps = 0

Init ==
  /\ Started
  /\ call = NoArgs

(* ------------------------------ actions ------------------------------- *)

\* Thread t calls rd_tsprintf(fmt, ...).  With oom the allocations of the
\* call may fail.
Tsprintf(t, fmt, oom) ==
  /\ ~fault
  /\ \E p \in {rdstr_states(t)} :
       \E r0 \in {rd_tsprintf(pools[p], heap, fmt, TRUE, NULL)} :
         \E arrOk \in (IF oom /\ pools[p].size = 0 THEN BOOLEAN ELSE {TRUE}),
            a \in (IF r0.allocs = {} \/ oom THEN {NULL} ELSE {})
                     \cup r0.allocs :
           \E r \in {IF arrOk /\ a = NULL THEN r0
                      ELSE rd_tsprintf(pools[p], heap, fmt, arrOk, a)} :
             LET initd == pools[p].size = 0
                 slot == r.cyc.i
                 known == ~initd /\ slot \in DOMAIN pools[p].buf
                 view == [addr |-> r.ret, text |-> Read(r.heap, r.ret)]
                 old == IF initd THEN <<>> ELSE recent[t]
             IN  /\ pools' = [pools EXCEPT ![p] = r.cyc]
                 /\ heap' = r.heap
                 /\ fault' = r.fault
                 /\ recent' =
                      [recent EXCEPT
                         ![t] = SubSeq(<<view>> \o old, 1,
                                       Min(Len(old) + 1, BUFCNT))]
                 /\ last' =
                      [op |-> "tsprintf", t |-> t, fmt |-> fmt,
                       ret |-> r.ret, slot |-> slot,
                       replaced |-> r.replaced, initd |-> initd,
                       nfreed |-> r.nfreed, arrays |-> 0,
                       preSize |-> pools[p].size, preI |-> pools[p].i,
                       preLen |-> IF known THEN pools[p].len[slot] ELSE 0,
                       hadView |-> /\ Len(old) = BUFCNT
                                   /\ old[BUFCNT].addr # NULL]

\* Thread t calls rd_string_thread_cleanup().
Cleanup(t) ==
  /\ ~fault
  /\ \E p \in {rdstr_states(t)} :
       \E r \in {rd_string_thread_cleanup(pools[p], heap)} :
         /\ pools' = [pools EXCEPT ![p] = r.cyc]
         /\ heap' = r.heap
         /\ fault' = r.fault
         /\ recent' = [recent EXCEPT ![t] = <<>>]
         /\ last' = [NoCall EXCEPT !.op = "cleanup", !.t = t,
                                   !.nfreed = r.nfreed,
                                   !.arrays = r.arrays,
                                   !.preSize = pools[p].size,
                                   !.preI = pools[p].i]

(* --------------------------- specifications --------------------------- *)

\* The first thread.
First == {t \in Threads : \A u \in Threads : t <= u}

\* Spec: one thread, every format, any number of calls; allocations succeed.
Render(t, fmt) ==
  /\ Tsprintf(t, fmt, FALSE)
  /\ UNCHANGED <<solo, steps, call>>

Teardown(t) ==
  /\ Cleanup(t)
  /\ UNCHANGED <<solo, steps, call>>

Next ==
  \/ \E t \in First, fmt \in Formats : Render(t, fmt)
  \/ \E t \in First : Teardown(t)

Spec == Init /\ [][Next]_vars

\* SpecMT: all threads interleaved, MaxSteps calls in all, the formats that
\* grow, shrink and fail; allocations succeed.  Beside each thread runs its
\* copy that makes the same calls alone.
FormatsMT == {f \in Formats : f.n \in {0, 500}}

RenderMT(t, fmt) ==
  /\ steps < MaxSteps
  /\ steps' = steps + 1
  /\ Tsprintf(t, fmt, FALSE)
  /\ solo' = [solo EXCEPT ![t] = SoloTsprintf(@, fmt)]
  /\ UNCHANGED call

TeardownMT(t) ==
  /\ steps < MaxSteps
  /\ steps' = steps + 1
  /\ Cleanup(t)
  /\ solo' = [solo EXCEPT ![t] = SoloCleanup(@)]
  /\ UNCHANGED call

NextMT ==
  \/ \E t \in Threads, fmt \in FormatsMT : RenderMT(t, fmt)
  \/ \E t \in Threads : TeardownMT(t)

SpecMT == Init /\ [][NextMT]_vars

\* SpecSizing: the sizing of rd_tsprintf() (len++ and the replace test) on
\* measured lengths and slot capacities up to INT_MAX.
LenSamples ==
  {0, 10, 500, INT_MAX \div 4 - 1, INT_MAX \div 4, INT_MAX - 1, INT_MAX}

CapSamples == {1, 11, 64, 65, 501, INT_MAX \div 4 + 1, INT_MAX}

\* A slot has no storage and capacity 0, or storage and a capacity.
SizingArgs ==
  {[op |-> "sizing", b |-> b, cap |-> IF b = NULL THEN 0 ELSE cap,
    len |-> len] :
     b \in {NULL, 1}, cap \in CapSamples, len \in LenSamples}

InitSizing ==
  /\ Started
  /\ call \in SizingArgs

\* The sizing is done for the arguments in call.  Signed overflow is
\* undefined: the decision then is any, or the program traps.
Sizing ==
  /\ call.op = "sizing"
  /\ \E ovf \in {sizing_overflows(call.b, call.cap, call.len)} :
       \E out \in IF ovf
                     THEN {"replace", "keep", "trap"}
                     ELSE {IF NeedReplace(call.b, call.cap,
                                          int_add(call.len, 1))
                             THEN "replace" ELSE "keep"} :
         call' = [op |-> "sized", b |-> call.b, cap |-> call.cap,
                  len |-> call.len, ovf |-> ovf, out |-> out]
  /\ UNCHANGED <<pools, heap, fault, recent, solo, last, steps>>

NextSizing == Sizing

SpecSizing == InitSizing /\ [][NextSizing]_vars

\* SpecCat: rd_snprintf_cat() on every memory of MaxBuf bytes that holds a
\* terminated string, every size up to MaxBuf and every format.
CatFormats == {[ch |-> "a", n |-> l] : l \in 0 .. MaxBuf} \cup {BadFormat}

CatArgs ==
  {[op |-> "cat", mem |-> m, size |-> z, fmt |-> f] :
     m \in {m \in [1 .. MaxBuf -> {"p", "q", Nul}] :
              \E j \in 1 .. MaxBuf : m[j] = Nul},
     z \in 0 .. MaxBuf, f \in CatFormats}

InitCat ==
  /\ Started
  /\ call \in CatArgs

Cat ==
  /\ call.op = "cat"
  /\ \E part \in 0 .. (IF call.fmt = BadFormat THEN MaxBuf ELSE 0) :
       \E r \in {rd_snprintf_cat(call.mem, call.size, call.fmt, part)} :
         call' = [op |-> "catted", mem |-> call.mem, size |-> call.size,
                  fmt |-> call.fmt, out |-> r.mem, ret |-> r.ret,
                  errno |-> r.errno]
  /\ UNCHANGED <<pools, heap, fault, recent, solo, last, steps>>

NextCat == Cat

SpecCat == InitCat /\ [][NextCat]_vars

\* SpecDiff: rd_strndiffpos() and rd_strdiffpos() on every two strings of
\* at most MaxStrLen characters.
Strs == UNION {[1 .. n -> {"a", "b"}] : n \in 0 .. MaxStrLen}

DiffArgs == {[op |-> "diff", s1 |-> s1, s2 |-> s2] : s1 \in Strs, s2 \in Strs}

InitDiff ==
  /\ Started
  /\ call \in DiffArgs

Diff ==
  /\ call.op = "diff"
  /\ call' = [op |-> "diffed", s1 |-> call.s1, s2 |-> call.s2,
              nret |-> rd_strndiffpos(call.s1, Len(call.s1),
                                      call.s2, Len(call.s2)),
              zret |-> rd_strdiffpos(call.s1 \o <<Nul>>,
                                     call.s2 \o <<Nul>>)]
  /\ UNCHANGED <<pools, heap, fault, recent, solo, last, steps>>

NextDiff == Diff

SpecDiff == InitDiff /\ [][NextDiff]_vars

\* SpecOOM: as Spec, but calloc() and malloc() may return NULL.
RenderOOM(t, fmt) ==
  /\ Tsprintf(t, fmt, TRUE)
  /\ UNCHANGED <<solo, steps, call>>

NextOOM ==
  \/ \E t \in First, fmt \in Formats : RenderOOM(t, fmt)
  \/ \E t \in First : Teardown(t)

SpecOOM == Init /\ [][NextOOM]_vars

(* ------------------------------ claims -------------------------------- *)

\* The pool of thread t.
PoolOf(t) == pools[rdstr_states(t)]

\* The latest step was a call of rd_tsprintf().
Rendered == last.op = "tsprintf"

\* A pool without its addresses and contents.
Shape(cyc) ==
  [size |-> cyc.size, i |-> cyc.i,
   slots |-> [s \in DOMAIN cyc.buf |->
                [present |-> cyc.buf[s] # NULL, cap |-> cyc.len[s]]]]

\* What rd_tsprintf(fmt) gives a thread that never called it.
Fresh(fmt) ==
  rd_tsprintf(ZeroCyclic, EmptyHeap, fmt, TRUE,
              CHOOSE a \in Addrs : \A b \in Addrs : a <= b)

\* C1: rotation determinism.  The call that initializes the pool uses slot
\* 0 and every later call uses the slot after the one the call before it
\* used, modulo BUFCNT, whether calls fail or not: so the i-th call since
\* the initialization uses slot (i-1) mod BUFCNT, and calls i and i+BUFCNT
\* use the same slot.
C1_RotationFromZero ==
  Rendered =>
    last.slot = IF last.initd THEN 0 ELSE (last.preI + 1) % BUFCNT

\* C2: view validity within a window.  Every view one of the latest BUFCNT
\* calls of a thread returned, with no cleanup since, points to a block that
\* is still allocated and still holds the text it held when it was
\* returned; and these views point to pairwise distinct blocks.
C2_ViewsValidInWindow ==
  \A t \in Threads :
    LET v == recent[t]
        held == {j \in DOMAIN v : v[j].addr # NULL}
    IN  /\ Len(v) <= BUFCNT
        /\ \A j \in held :
             /\ heap[v[j].addr].live
             /\ heap[v[j].addr].text = v[j].text
        /\ \A j1, j2 \in held : j1 # j2 => v[j1].addr # v[j2].addr

\* A full window of views is held, and the latest call came around to a
\* slot that had returned a view before and replaced its storage.
C2_Witness ==
  \E t \in Threads :
    /\ Rendered /\ last.t = t /\ last.hadView /\ last.replaced
    /\ Len(recent[t]) = BUFCNT
    /\ \A j \in DOMAIN recent[t] : recent[t][j].addr # NULL

\* C3: capacity sufficiency.  After a call that returns a view, the length
\* of the rendered text is below the capacity recorded for the slot used,
\* and the slot holds the whole text.
C3_CapacitySufficient ==
  (Rendered /\ last.ret # NULL) =>
    /\ last.fmt.n < PoolOf(last.t).len[last.slot]
    /\ PoolOf(last.t).buf[last.slot] = last.ret
    /\ Read(heap, last.ret) = last.fmt

\* A 500 byte text was rendered into a slot of capacity 11.
C3_Witness ==
  Rendered /\ last.ret # NULL /\ last.fmt.n = 500 /\ last.preLen = 11

\* C4: a format failure does not touch the slot.  A call whose measurement
\* fails returns NULL, and the storage and capacity of the slot at the
\* cursor are what they were before the call (no storage and capacity 0
\* where the call initialized the pool), the block included.
C4_FormatFailureKeepsSlot ==
  [][(last'.op = "tsprintf" /\ last'.fmt = BadFormat) =>
       LET p == rdstr_states(last'.t)
           s == pools'[p].i
       IN  /\ last'.ret = NULL
           /\ IF pools[p].size = 0
                THEN pools'[p].buf[s] = NULL /\ pools'[p].len[s] = 0
                ELSE /\ pools'[p].buf[s] = pools[p].buf[s]
                     /\ pools'[p].len[s] = pools[p].len[s]
                     /\ pools[p].buf[s] # NULL =>
                          heap'[pools[p].buf[s]] = heap[pools[p].buf[s]]]_vars

\* A call failed on a slot that holds storage.
C4_Witness ==
  /\ Rendered /\ last.fmt = BadFormat /\ ~last.initd
  /\ PoolOf(last.t).buf[last.slot] # NULL

\* C5: teardown resets to a fresh pool.  After a cleanup the slot count is
\* 0, and after a call that initializes the pool the slot count, the
\* cursor, every slot's storage presence and capacity, and the returned text
\* are those a thread gets that makes this call as its first.
C5_TeardownResetsToFresh ==
  /\ last.op = "cleanup" => PoolOf(last.t).size = 0
  /\ (Rendered /\ last.initd) =>
       /\ Shape(PoolOf(last.t)) = Shape(Fresh(last.fmt).cyc)
       /\ (last.ret = NULL) = (Fresh(last.fmt).ret = NULL)
       /\ Read(heap, last.ret)
            = Read(Fresh(last.fmt).heap, Fresh(last.fmt).ret)

\* C6, as claimed: aliasing after wraparound.  When call i returned a view
\* and call i+BUFCNT, with no cleanup between, returns one, the two views
\* are the same block and call i's view reads as the text of call i+BUFCNT.
C6_AliasAfterWrap ==
  [][(last'.op = "tsprintf" /\ last'.ret # NULL /\ last'.hadView) =>
       LET old == recent[last'.t][BUFCNT]
       IN  /\ old.addr = last'.ret
           /\ Read(heap', old.addr) = last'.fmt]_vars

\* C6, amended: the two views are the same block, reading as the text of
\* call i+BUFCNT, when call i+BUFCNT keeps the slot's storage, that is when
\* the capacity is at least the rendered length plus 1 and not both above
\* 4 times that and above 64.  When it replaces the storage, call i's view
\* is the same block only if malloc hands the freed address out again, and
\* otherwise points to a block that is no longer allocated.
C6_AliasUnlessReplaced ==
  [][(last'.op = "tsprintf" /\ last'.ret # NULL /\ last'.hadView) =>
       LET old == recent[last'.t][BUFCNT]
           cap == pools[rdstr_states(last'.t)].len[last'.slot]
           need == last'.fmt.n + 1
       IN  IF cap >= need /\ ~(cap > need * 4 /\ cap > 64)
             THEN /\ old.addr = last'.ret
                  /\ Read(heap', old.addr) = last'.fmt
             ELSE old.addr # last'.ret => ~heap'[old.addr].live]_vars

\* A call came around to a slot whose view was held, kept its storage and
\* rendered a shorter text into it.
C6_Witness ==
  /\ Rendered /\ last.ret # NULL /\ last.hadView /\ ~last.replaced
  /\ last.fmt.n + 1 < last.preLen

\* C7: the replace rule.  With need the rendered length plus 1, a call
\* replaces the storage of its slot exactly when there is none, or the
\* capacity is below need, or the capacity is above both 4 * need and 64.
\* Replacing releases the old block and leaves a block and a capacity of
\* exactly need; otherwise block and capacity stay as they were.
C7_ReplaceRule ==
  [][(last'.op = "tsprintf" /\ last'.fmt # BadFormat) =>
       LET p == rdstr_states(last'.t)
           s == pools'[p].i
           init == pools[p].size = 0
           b == IF init THEN NULL ELSE pools[p].buf[s]
           cap == IF init THEN 0 ELSE pools[p].len[s]
           need == last'.fmt.n + 1
           b2 == pools'[p].buf[s]
       IN  IF b = NULL \/ cap < need \/ (cap > need * 4 /\ cap > 64)
             THEN /\ last'.replaced
                  /\ pools'[p].len[s] = need
                  /\ b2 # NULL /\ heap'[b2].live /\ heap'[b2].size = need
                  /\ last'.nfreed = IF b = NULL THEN 0 ELSE 1
                  /\ (b # NULL /\ b # b2) => ~heap'[b].live
             ELSE /\ ~last'.replaced
                  /\ last'.nfreed = 0
                  /\ b2 = b /\ pools'[p].len[s] = cap
                  /\ heap'[b].live /\ heap'[b].size = heap[b].size]_vars

\* A slot of capacity 501 was rendered into with a 10 byte text and ended
\* with capacity 11.
C7_Witness ==
  /\ Rendered /\ last.replaced /\ last.preLen = 501 /\ last.fmt.n = 10
  /\ PoolOf(last.t).len[last.slot] = 11

\* C8: thread isolation.  A call by one thread leaves the pool of every
\* other thread, and the blocks its slots hold, as they were; and every
\* thread's pool, slot contents and latest result are those of the thread
\* making the same calls alone.
C8_ThreadIsolation ==
  [][/\ \A u \in Threads \ {last'.t} :
          /\ pools'[rdstr_states(u)] = pools[rdstr_states(u)]
          /\ \A s \in DOMAIN pools[rdstr_states(u)].buf :
               pools[rdstr_states(u)].buf[s] # NULL =>
                 heap'[pools[rdstr_states(u)].buf[s]]
                   = heap[pools[rdstr_states(u)].buf[s]]
     /\ \A u \in Threads :
          Abs(pools'[rdstr_states(u)], heap')
            = Abs(solo'[u].cyc, solo'[u].heap)
     /\ solo'[last'.t].out
          = IF last'.op = "tsprintf"
              THEN [ok |-> last'.ret # NULL, text |-> Read(heap', last'.ret)]
              ELSE NoOut]_vars

\* Every thread holds storage, and the latest call replaced a block.
C8_Witness ==
  /\ \A t \in Threads :
       /\ pools[t].size > 0
       /\ \E s \in DOMAIN pools[t].buf : pools[t].buf[s] # NULL
  /\ Rendered /\ last.replaced /\ last.nfreed = 1

\* C9: teardown releases everything and is idempotent.  A cleanup of a pool
\* with slot count 0 changes no pool and no block.  A cleanup of an
\* initialized pool releases each block its slots hold once, with no double
\* free, releases the two arrays, sets the slot count to 0 and leaves every
\* other block as it was.
C9_TeardownReleasesAll ==
  [][last'.op = "cleanup" =>
       LET p == rdstr_states(last'.t)
           c == pools[p]
           owned == {c.buf[s] : s \in DOMAIN c.buf} \ {NULL}
       IN  IF c.size = 0
             THEN /\ pools' = pools /\ heap' = heap /\ ~fault'
                  /\ last'.nfreed = 0 /\ last'.arrays = 0
             ELSE /\ pools'[p].size = 0
                  /\ \A a \in owned : ~heap'[a].live
                  /\ last'.nfreed = Cardinality(owned)
                  /\ ~fault'
                  /\ last'.arrays = 2
                  /\ pools'[p].bufp = "freed" /\ pools'[p].lenp = "freed"
                  /\ \A a \in Addrs \ owned : heap'[a] = heap[a]]_vars

\* A pool whose every slot held storage was cleaned up.
C9_Witness ==
  /\ last.op = "cleanup" /\ last.preSize = BUFCNT /\ last.nfreed = BUFCNT
  /\ \A a \in Addrs : ~heap[a].live

\* C10, as claimed: a format failure mutates nothing.  A call whose
\* measurement fails returns NULL and leaves the pool (slot count, cursor,
\* every slot's storage and capacity) and the heap as they were.
C10_FormatFailureMutatesNothing ==
  [][(last'.op = "tsprintf" /\ last'.fmt = BadFormat) =>
       /\ last'.ret = NULL
       /\ pools'[rdstr_states(last'.t)] = pools[rdstr_states(last'.t)]
       /\ heap' = heap]_vars

\* C10, amended: such a call returns NULL and leaves every block and every
\* slot's storage and capacity as they were, but it has taken its turn in
\* the rotation: the cursor has moved to the next slot, or, on a pool with
\* slot count 0, the pool has been initialized with BUFCNT empty slots.
C10_FormatFailureOnlyRotates ==
  [][(last'.op = "tsprintf" /\ last'.fmt = BadFormat) =>
       LET c == pools[rdstr_states(last'.t)]
       IN  /\ last'.ret = NULL
           /\ heap' = heap
           /\ pools'[rdstr_states(last'.t)] =
                IF c.size = 0
                  THEN [c EXCEPT !.size = BUFCNT,
                                 !.buf = [s \in 0 .. BUFCNT - 1 |-> NULL],
                                 !.len = [s \in 0 .. BUFCNT - 1 |-> 0],
                                 !.bufp = "live", !.lenp = "live"]
                  ELSE [c EXCEPT !.i = (c.i + 1) % BUFCNT]]_vars

\* A call failed on an initialized pool that holds storage.
C10_Witness ==
  /\ Rendered /\ last.fmt = BadFormat /\ ~last.initd /\ last.ret = NULL
  /\ \E a \in Addrs : heap[a].live

\* C11: single-slot effect and round-robin step.  A call on an initialized
\* pool keeps the slot count, moves the cursor from c to (c+1) mod the slot
\* count, and leaves the storage, the capacity and the content of every slot
\* but the one at the new cursor as they were.
C11_SingleSlotEffect ==
  [][(last'.op = "tsprintf" /\ ~last'.initd) =>
       LET c == pools[rdstr_states(last'.t)]
           d == pools'[rdstr_states(last'.t)]
       IN  /\ d.size = c.size
           /\ d.i = (c.i + 1) % c.size
           /\ \A s \in DOMAIN c.buf \ {d.i} :
                /\ d.buf[s] = c.buf[s]
                /\ d.len[s] = c.len[s]
                /\ c.buf[s] # NULL => heap'[c.buf[s]] = heap[c.buf[s]]]_vars

\* A call replaced the storage of its slot while another slot held storage.
C11_Witness ==
  /\ Rendered /\ ~last.initd /\ last.replaced /\ last.nfreed = 1
  /\ \E s \in DOMAIN PoolOf(last.t).buf :
       s # last.slot /\ PoolOf(last.t).buf[s] # NULL

\* C12: pool shape.  In every state the slot count of a pool is 0 or
\* BUFCNT, and when it is above 0 the cursor is at least 0 and below it; a
\* step changes the slot count only from 0 to BUFCNT, in a call of
\* rd_tsprintf() by the thread, or from BUFCNT to 0, in its cleanup.
C12_PoolShape ==
  [][\A t \in Threads :
       LET c == pools[rdstr_states(t)]
           d == pools'[rdstr_states(t)]
       IN  /\ c.size \in {0, BUFCNT} /\ d.size \in {0, BUFCNT}
           /\ c.size > 0 => (0 <= c.i /\ c.i < c.size)
           /\ d.size > 0 => (0 <= d.i /\ d.i < d.size)
           /\ d.size # c.size =>
                /\ last'.t = t
                /\ \/ c.size = 0 /\ d.size = BUFCNT /\ last'.op = "tsprintf"
                   \/ c.size = BUFCNT /\ d.size = 0 /\ last'.op = "cleanup"]_vars

\* A pool was initialized again after a cleanup that found the cursor on
\* the last slot.
C12_Witness ==
  /\ Rendered /\ last.initd /\ last.preI = BUFCNT - 1
  /\ PoolOf(last.t).size = BUFCNT

\* C13: bounded retention.  After a call that returns a view, with n the
\* rendered length plus 1, the capacity c of the slot used is at least n and
\* at most 4 * n or at most 64; the capacity of every other slot is what it
\* was before the call.
C13_BoundedRetention ==
  [][(last'.op = "tsprintf" /\ last'.ret # NULL) =>
       LET c == pools[rdstr_states(last'.t)]
           d == pools'[rdstr_states(last'.t)]
           n == last'.fmt.n + 1
       IN  /\ n <= d.len[d.i]
           /\ d.len[d.i] <= 4 * n \/ d.len[d.i] <= 64
           /\ \A s \in DOMAIN c.len \ {d.i} : d.len[s] = c.len[s]]_vars

\* A slot of capacity 501 dropped to capacity 1 for the empty text while
\* another slot kept its capacity of 501.
C13_Witness ==
  /\ Rendered /\ last.ret # NULL /\ last.preLen = 501 /\ last.fmt.n = 0
  /\ PoolOf(last.t).len[last.slot] = 1
  /\ \E s \in DOMAIN PoolOf(last.t).len :
       s # last.slot /\ PoolOf(last.t).len[s] = 501

\* C14: capacity and storage agree.  In an initialized pool a slot has
\* capacity 0 exactly when it has no storage, and the capacity of a slot
\* with storage is the allocated size of its block, at least 1.
C14_CapacityMatchesStorage ==
  \A t \in Threads :
    PoolOf(t).size > 0 =>
      \A s \in DOMAIN PoolOf(t).buf :
        /\ (PoolOf(t).len[s] = 0) <=> (PoolOf(t).buf[s] = NULL)
        /\ PoolOf(t).buf[s] # NULL =>
             /\ heap[PoolOf(t).buf[s]].live
             /\ heap[PoolOf(t).buf[s]].size = PoolOf(t).len[s]
             /\ PoolOf(t).len[s] >= 1

\* A pool has a slot without storage and a slot whose storage was shrunk.
C14_Witness ==
  /\ Rendered /\ last.replaced /\ last.nfreed = 1
  /\ last.preLen > PoolOf(last.t).len[last.slot]
  /\ \E s \in DOMAIN PoolOf(last.t).buf : PoolOf(last.t).buf[s] = NULL

\* C15: allocation failure is not checked.  When calloc() returned NULL for
\* the slot arrays, a call with a valid format goes on to index the absent
\* array; when malloc() returned NULL for the storage of a slot, the call
\* goes on to render through the absent storage and leaves the slot with
\* no storage and a capacity of the rendered length plus 1, above 0.  Either
\* way the call makes an invalid memory access.
C15_AllocFailureUnchecked ==
  [][(last'.op = "tsprintf" /\ last'.fmt # BadFormat) =>
       LET d == pools'[rdstr_states(last'.t)]
       IN  /\ d.bufp # "live" => fault'
           /\ (d.bufp = "live" /\ last'.replaced /\ d.buf[d.i] = NULL) =>
                /\ fault'
                /\ d.len[d.i] = last'.fmt.n + 1
                /\ d.len[d.i] > 0]_vars

\* malloc() failed for a slot whose old storage the call had released: the
\* slot is left with a capacity and no storage, after an invalid access.
C15_Witness ==
  /\ fault /\ Rendered /\ last.replaced /\ last.nfreed = 1
  /\ PoolOf(last.t).buf[last.slot] = NULL
  /\ PoolOf(last.t).len[last.slot] > 0

\* C17: no integer wrap-around in sizing.  For every measured length from
\* 0 to INT_MAX the increment len + 1 and the product len * 4 of the
\* replace test fit a 32 bit int, and the decision is the one made with
\* unbounded integers: replace when there is no storage, or the capacity is
\* below len + 1, or above both 4 * (len + 1) and 64.
C17_NoIntOverflow ==
  call.op = "sized" =>
    /\ ~call.ovf
    /\ call.out =
         IF \/ call.b = NULL
            \/ call.cap <= call.len
            \/ ((call.cap - 1) \div 4 > call.len /\ call.cap > 64)
           THEN "replace" ELSE "keep"

\* C16: ownership.  In every state the allocated blocks are exactly the
\* blocks the slots of the pools refer to (none for a pool with slot count
\* 0), no block is referred to by two slots, no block was freed twice or
\* accessed outside its allocation, and a block that is not allocated holds
\* nothing a call wrote after it was freed.
C16_Ownership ==
  LET refs == {<<t, s>> \in Threads \X (0 .. BUFCNT - 1) :
                 /\ s \in DOMAIN PoolOf(t).buf
                 /\ PoolOf(t).buf[s] # NULL}
  IN  /\ {a \in Addrs : heap[a].live}
           = {PoolOf(r[1]).buf[r[2]] : r \in refs}
      /\ \A r1, r2 \in refs :
           r1 # r2 => PoolOf(r1[1]).buf[r1[2]] # PoolOf(r2[1]).buf[r2[2]]
      /\ \A t \in Threads : PoolOf(t).size = 0 => PoolOf(t).buf = <<>>
      /\ ~fault
      /\ \A a \in Addrs : ~heap[a].live => heap[a] = DeadBlock

\* Every slot holds a block, and the latest call freed one and allocated
\* another.
C16_Witness ==
  /\ Rendered /\ last.replaced /\ last.nfreed = 1
  /\ \A s \in 0 .. BUFCNT - 1 : PoolOf(last.t).buf[s] # NULL
  /\ \E a \in Addrs : ~heap[a].live

\* C18: rd_snprintf_cat bounds and error path.  With of the length of the
\* string in str: when of >= size the call returns -1, sets errno to
\* ERANGE and leaves str as it was; otherwise every byte of str before
\* offset of and from offset size on is as it was, and for a format
\* vsnprintf() accepts the call returns of plus the full length of the
\* formatted text.
C18_CatBounds ==
  call.op = "catted" =>
    LET of == CHOOSE k \in 0 .. MaxBuf :
                /\ \A j \in 1 .. k : call.mem[j] # Nul
                /\ call.mem[k + 1] = Nul
    IN  IF of >= call.size
          THEN call.ret = -1 /\ call.errno = "ERANGE" /\ call.out = call.mem
          ELSE /\ \A j \in 1 .. MaxBuf :
                    (j <= of \/ j > call.size) => call.out[j] = call.mem[j]
               /\ call.fmt # BadFormat => call.ret = of + call.fmt.n

\* A text that does not fit was appended to a string that is not empty and
\* ends before the last byte.
C18_Witness ==
  /\ call.op = "catted" /\ call.fmt # BadFormat
  /\ call.mem[1] # Nul /\ call.mem[2] = Nul /\ call.size = MaxBuf - 1
  /\ call.fmt.n = MaxBuf /\ call.ret = 1 + MaxBuf
  /\ call.out # call.mem

\* C19: difference position.  rd_strndiffpos() returns -1 exactly when the
\* two sequences have the same size and bytes, and otherwise the length of
\* their longest common prefix; rd_strdiffpos() on the same sequences,
\* terminated, returns the same value.
C19_DiffPos ==
  call.op = "diffed" =>
    LET m == Min(Len(call.s1), Len(call.s2))
        lcp == CHOOSE k \in 0 .. m :
                 /\ \A j \in 1 .. k : call.s1[j] = call.s2[j]
                 /\ k = m \/ call.s1[k + 1] # call.s2[k + 1]
    IN  /\ call.nret = IF call.s1 = call.s2 THEN -1 ELSE lcp
        /\ call.zret = call.nret

\* One string is a proper prefix of the other and not empty.
C19_Witness ==
  /\ call.op = "diffed"
  /\ Len(call.s1) > 0 /\ Len(call.s1) < Len(call.s2)
  /\ call.s1 = SubSeq(call.s2, 1, Len(call.s1))
  /\ call.nret = Len(call.s1)

====
